---------------------------- MODULE Spec2Model ----------------------------
(***************************************************************************)
(* A model of the alicloud-sls-log client: the signer / request builder    *)
(* (src/src/request.ts, the fetch variant at lines 153-347) and the log    *)
(* client on top of it (src/src/client.ts).                                *)
(*                                                                         *)
(* Strings are sequences of UTF-16 code units, so that toLowerCase, trim,  *)
(* startsWith and the default Array.prototype.sort order are computed the  *)
(* way the engine computes them.  A JavaScript object is the sequence of   *)
(* its <<key, value>> entries in insertion order.  An optional value is    *)
(* <<>> (undefined) or <<v>>.                                              *)
(***************************************************************************)
EXTENDS Integers, Sequences, FiniteSets, TLC

VARIABLES
    config,     \* RequestConfig: the credential fields and globalRequestOptions
    now,        \* the wall clock read by Date.now() / new Date(), <<seconds, ms>>
    calls,      \* one record per call of putLogs / getLogs / do
    hdrs0,      \* canonicalization: the header mapping first given
    hdrs,       \* canonicalization: the same mapping, re-ordered / re-cased
    canonOut,   \* canonicalization: the result of getCanonicalizedHeaders(hdrs)
    gens        \* history: the credentials installed so far, oldest first

vars == <<config, now, calls, hdrs0, hdrs, canonOut, gens>>

----------------------------------------------------------------------------
(* Optional values and sequence helpers.                                   *)

None == <<>>

Some(v) == <<v>>

Range(s) == {s[i] : i \in 1..Len(s)}

RECURSIVE Concat(_)
Concat(ss) == IF ss = <<>> THEN <<>> ELSE Head(ss) \o Concat(Tail(ss))

\* Array.prototype.join(sep)
RECURSIVE Join(_, _)
Join(ss, sep) ==
    IF ss = <<>> THEN <<>>
    ELSE IF Len(ss) = 1 THEN Head(ss)
    ELSE Head(ss) \o sep \o Join(Tail(ss), sep)

----------------------------------------------------------------------------
(* String primitives of the engine, on code-unit sequences.                *)

\* String.prototype.toLowerCase on the ASCII range: 'A'..'Z' -> 'a'..'z'
ToLowerCase(s) == [i \in 1..Len(s) |-> IF s[i] >= 65 /\ s[i] <= 90 THEN s[i] + 32 ELSE s[i]]

\* String.prototype.startsWith
StartsWith(s, p) == Len(s) >= Len(p) /\ SubSeq(s, 1, Len(p)) = p

\* String.prototype.trim: leading and trailing spaces (code unit 32) removed
RECURSIVE TrimStart(_)
TrimStart(s) == IF s # <<>> /\ Head(s) = 32 THEN TrimStart(Tail(s)) ELSE s

RECURSIVE TrimEnd(_)
TrimEnd(s) == IF s # <<>> /\ s[Len(s)] = 32 THEN TrimEnd(SubSeq(s, 1, Len(s) - 1)) ELSE s

Trim(s) == TrimEnd(TrimStart(s))

\* The order of the default sort(): strings compared by UTF-16 code units.
RECURSIVE StrLess(_, _)
StrLess(a, b) ==
    IF b = <<>> THEN FALSE
    ELSE IF a = <<>> THEN TRUE
    ELSE IF Head(a) # Head(b) THEN Head(a) < Head(b)
    ELSE StrLess(Tail(a), Tail(b))

RECURSIVE InsertSorted(_, _)
InsertSorted(k, s) ==
    IF s = <<>> THEN <<k>>
    ELSE IF StrLess(k, Head(s)) THEN <<k>> \o s
    ELSE <<Head(s)>> \o InsertSorted(k, Tail(s))

\* Array.prototype.sort() with no comparator, on an array of distinct strings
RECURSIVE Sort(_)
Sort(s) == IF s = <<>> THEN <<>> ELSE InsertSorted(Head(s), Sort(Tail(s)))

----------------------------------------------------------------------------
(* Objects: entries <<key, value>> in insertion order, keys distinct.      *)

Keys(o) == [i \in 1..Len(o) |-> o[i][1]]

Has(o, k) == \E i \in 1..Len(o) : o[i][1] = k

Get(o, k) == o[CHOOSE i \in 1..Len(o) : o[i][1] = k][2]

\* o[k] = v: an existing key keeps its place, a new key goes last
Set(o, k, v) ==
    IF Has(o, k) THEN [i \in 1..Len(o) |-> IF o[i][1] = k THEN <<k, v>> ELSE o[i]]
    ELSE Append(o, <<k, v>>)

\* Object.assign(target, source)
RECURSIVE Assign(_, _)
Assign(target, source) ==
    IF source = <<>> THEN target
    ELSE Assign(Set(target, Head(source)[1], Head(source)[2]), Tail(source))

----------------------------------------------------------------------------
(* Header names and literals used by the code.                             *)

XLogPrefix == <<120, 45, 108, 111, 103, 45>>          \* "x-log-"

XAcsPrefix == <<120, 45, 97, 99, 115, 45>>            \* "x-acs-"

Newline == <<10>>                                     \* "\n"

Colon == <<58>>                                       \* ":"

IsCanonicalKey(key) ==
    LET lowerKey == ToLowerCase(key)
    IN  StartsWith(lowerKey, XLogPrefix) \/ StartsWith(lowerKey, XAcsPrefix)

\* Object.keys(headers).filter(key => ...)
RECURSIVE FilterCanonical(_)
FilterCanonical(keys) ==
    IF keys = <<>> THEN <<>>
    ELSE IF IsCanonicalKey(Head(keys)) THEN <<Head(keys)>> \o FilterCanonical(Tail(keys))
    ELSE FilterCanonical(Tail(keys))

\* getCanonicalizedHeaders: the keys are filtered on their lowercased name,
\* sorted AS GIVEN (sort() runs before the names are lowercased), and only
\* then lowercased for output.
getCanonicalizedHeaders(headers) ==
    LET canonicalizedKeys == Sort(FilterCanonical(Keys(headers)))
    IN  IF Len(canonicalizedKeys) = 0 THEN <<>>
        ELSE Join([i \in 1..Len(canonicalizedKeys) |->
                      ToLowerCase(canonicalizedKeys[i]) \o Colon
                          \o Trim(Get(headers, canonicalizedKeys[i]))],
                  Newline)

----------------------------------------------------------------------------
(* Numbers.  An epoch value t is the pair <<q, r>> with t = 1000*q + r and *)
(* 0 <= r < 1000, so that values around 10^12 are computed with 32-bit     *)
(* integers.                                                               *)

Num(n) == <<n \div 1000, n % 1000>>

\* JavaScript truthiness of an optional number: undefined and 0 are falsy
TruthyNum(opt) == opt # None /\ opt[1] # 0

TruthyEpoch(opt) == opt # None /\ opt[1] # <<0, 0>>

\* the literal 1000000000000 of splitTimestamp, in seconds (10^12 = 1000 * 10^9)
ThresholdSeconds == 1000000000

\* time < 1000000000000
BelowThreshold(time) == time[1] < ThresholdSeconds

\* The spacing of IEEE-754 doubles at time * 10^6: 128 in [2^59, 2^60) and
\* 256 in [2^60, 2^61); 2^60 / 10^6 = 1152921504606.85
UlpOfProduct(time) ==
    IF time[1] > 1152921504 \/ (time[1] = 1152921504 /\ time[2] >= 607) THEN 256 ELSE 128

\* time * 1000 * 1000 exceeds 2^53, so the product is rounded to the nearest
\* double (ties to even).  10^9 is a multiple of 512 and 10^6 = 64 (mod 512),
\* so the exact product is 64 * (r mod 8) modulo 512.  The result is the
\* signed distance from the exact product to the double the engine yields.
ProductRoundingError(time) ==
    LET ulp == UlpOfProduct(time)
        m   == (64 * (time[2] % 8)) % (2 * ulp)
        low == m % ulp
    IN  IF low = 0 THEN 0
        ELSE IF 2 * low < ulp THEN 0 - low
        ELSE IF 2 * low > ulp THEN ulp - low
        ELSE IF m < ulp THEN 0 - low ELSE ulp - low

\* splitTimestamp(timestamp)
splitTimestamp(timestamp) ==
    LET time == IF TruthyEpoch(timestamp) THEN timestamp[1] ELSE now
    IN  IF BelowThreshold(time)
        THEN [seconds |-> time, nanoseconds |-> 0]
        ELSE [seconds |-> Num(time[1]),
              nanoseconds |-> (time[2] * 1000000 + ProductRoundingError(time)) % 1000000000]

\* One element of data.logs.map(...) in putLogs
EncodeLog(log) ==
    LET split == splitTimestamp(log.timestamp)
    IN  [Time     |-> split.seconds,
         TimeNs   |-> IF TruthyNum(log.timestampNsPart) THEN log.timestampNsPart[1]
                      ELSE split.nanoseconds,
         Contents |-> log.content]

\* payload.Logs of putLogs
EncodeLogs(logs) == [i \in 1..Len(logs) |-> EncodeLog(logs[i])]

\* Number.prototype.toString for a natural number
RECURSIVE ToDecimal(_)
ToDecimal(n) == IF n < 10 THEN <<48 + n>> ELSE ToDecimal(n \div 10) \o <<48 + (n % 10)>>

\* String(t) for an epoch value <<q, r>>
EpochToString(t) ==
    IF t[1] = 0 THEN ToDecimal(t[2])
    ELSE ToDecimal(t[1]) \o <<48 + (t[2] \div 100), 48 + ((t[2] \div 10) % 10), 48 + (t[2] % 10)>>

\* LogGroupProto.encode(...).finish(): the wire bytes, a function of the
\* payload (the schema compiler is an external library; the bytes stand for
\* the message they encode)
RECURSIVE EncodePayload(_)
EncodePayload(logsOut) ==
    IF logsOut = <<>> THEN <<>>
    ELSE <<10>> \o EpochToString(Head(logsOut).Time) \o <<32>> \o ToDecimal(Head(logsOut).TimeNs)
             \o Concat([i \in 1..Len(Head(logsOut).Contents) |->
                           <<18>> \o Head(logsOut).Contents[i][1] \o <<0>> \o Head(logsOut).Contents[i][2]])
             \o EncodePayload(Tail(logsOut))

----------------------------------------------------------------------------
(* The request builder: Request.do up to the fetch call, and Request.sign.  *)

ContentTypeKey == <<99, 111, 110, 116, 101, 110, 116, 45, 116, 121, 112, 101>>    \* "content-type"

DateKey == <<100, 97, 116, 101>>    \* "date"

ApiVersionKey == <<120, 45, 108, 111, 103, 45, 97, 112, 105, 118, 101, 114, 115, 105, 111, 110>>    \* "x-log-apiversion"

SignatureMethodKey == <<120, 45, 108, 111, 103, 45, 115, 105, 103, 110, 97, 116, 117, 114, 101, 109, 101, 116, 104, 111, 100>>    \* "x-log-signaturemethod"

SecurityTokenKey == <<120, 45, 97, 99, 115, 45, 115, 101, 99, 117, 114, 105, 116, 121, 45, 116, 111, 107, 101, 110>>    \* "x-acs-security-token"

ContentLengthKey == <<99, 111, 110, 116, 101, 110, 116, 45, 108, 101, 110, 103, 116, 104>>    \* "content-length"

ContentMd5Key == <<99, 111, 110, 116, 101, 110, 116, 45, 109, 100, 53>>    \* "content-md5"

AuthorizationKey == <<97, 117, 116, 104, 111, 114, 105, 122, 97, 116, 105, 111, 110>>    \* "authorization"

BodyRawSizeKey == <<120, 45, 108, 111, 103, 45, 98, 111, 100, 121, 114, 97, 119, 115, 105, 122, 101>>    \* "x-log-bodyrawsize"

AppJson == <<97, 112, 112, 108, 105, 99, 97, 116, 105, 111, 110, 47, 106, 115, 111, 110>>    \* "application/json"

AppProtobuf == <<97, 112, 112, 108, 105, 99, 97, 116, 105, 111, 110, 47, 120, 45, 112, 114, 111, 116, 111, 98, 117, 102>>    \* "application/x-protobuf"

ApiVersion == <<48, 46, 54, 46, 48>>    \* "0.6.0"

HmacSha1 == <<104, 109, 97, 99, 45, 115, 104, 97, 49>>    \* "hmac-sha1"

LogScheme == <<76, 79, 71, 32>>    \* "LOG "

MethodGet == <<71, 69, 84>>    \* "GET"

MethodPost == <<80, 79, 83, 84>>    \* "POST"

LogstoresPath == <<47, 108, 111, 103, 115, 116, 111, 114, 101, 115, 47>>    \* "/logstores/"

ShardsLb == <<47, 115, 104, 97, 114, 100, 115, 47, 108, 98>>    \* "/shards/lb"

TypeKey == <<116, 121, 112, 101>>    \* "type"

FromKey == <<102, 114, 111, 109>>    \* "from"

ToKey == <<116, 111>>    \* "to"

\* new Date().toUTCString(): the clock at one-second resolution
ToUTCString(t) == <<84>> \o ToDecimal(t[1])

\* CryptoJS.MD5(body).toString(Hex).toUpperCase(): a digest of the bytes,
\* taken collision-free
Md5HexUpper(body) == <<77, 68, 53>> \o body

\* CryptoJS.HmacSHA1(signString, secret).toString(Base64): a keyed digest,
\* taken collision-free in the pair (secret, signString)
HmacSHA1Base64(signString, secret) == secret \o <<35>> \o signString

\* a query value: undefined, a string, or a number
Undef == [t |-> "undefined", v |-> <<>>]

Str(s) == [t |-> "string", v |-> s]

Number(n) == [t |-> "number", v |-> n]

formatString(value) ==
    IF value.t = "undefined" THEN <<>>
    ELSE IF value.t = "number" THEN EpochToString(value.v)
    ELSE value.v

\* formatResource(path, queries); queries is None or Some(object)
formatResource(path, queries) ==
    IF queries = None THEN path
    ELSE LET keys == Sort(Keys(queries[1]))
         IN  IF Len(keys) = 0 THEN path
             ELSE path \o <<63>>
                    \o Join([i \in 1..Len(keys) |->
                                keys[i] \o <<61>> \o formatString(Get(queries[1], keys[i]))],
                            <<38>>)

\* getHeader of sign(): the first entry whose lowercased name matches, or ""
RECURSIVE getHeader(_, _)
getHeader(headers, key) ==
    IF headers = <<>> THEN <<>>
    ELSE IF ToLowerCase(Head(headers)[1]) = ToLowerCase(key) THEN Head(headers)[2]
    ELSE getHeader(Tail(headers), key)

\* the sign string of sign(): six fields joined by "\n"
SignString(method, resource, headers) ==
    Join(<<method,
           getHeader(headers, ContentMd5Key),
           getHeader(headers, ContentTypeKey),
           getHeader(headers, DateKey),
           getCanonicalizedHeaders(headers),
           resource>>, Newline)

\* Request.sign: reads this.config.accessKeySecret and this.config.accessKeyID
sign(method, resource, headers) ==
    LogScheme \o config.accessKeyID \o Colon
        \o HmacSHA1Base64(SignString(method, resource, headers), config.accessKeySecret)

\* the default headers of do(), first argument of Object.assign
DefaultHeaders ==
    << <<ContentTypeKey, AppJson>>,
       <<DateKey, ToUTCString(now)>>,
       <<ApiVersionKey, ApiVersion>>,
       <<SignatureMethodKey, HmacSha1>> >>

\* if (this.config.stsToken): undefined and "" are falsy
TruthyStr(opt) == opt # None /\ opt[1] # <<>>

\* the resource do() signs: the query joins it for GET only
SignedResource(options) ==
    IF options.method = MethodGet /\ options.queries # None
    THEN formatResource(options.path, options.queries)
    ELSE options.path

\* A variant of BuildRequest in which the body-integrity headers are added
\* after the signature has been computed.
BuildRequestIntegrityAfterSign(options) ==
    LET h0 == Assign(DefaultHeaders, options.headers)
        h1 == IF TruthyStr(config.stsToken)
              THEN Set(h0, SecurityTokenKey, config.stsToken[1]) ELSE h0
        h3 == Set(h1, AuthorizationKey, sign(options.method, SignedResource(options), h1))
        h4 == IF options.body # None
              THEN Set(Set(h3, ContentLengthKey, ToDecimal(Len(options.body[1]))),
                       ContentMd5Key, Md5HexUpper(options.body[1]))
              ELSE h3
    IN  [signed   |-> h1,
         sent     |-> h4,
         method   |-> options.method,
         resource |-> SignedResource(options),
         keyId    |-> config.accessKeyID,
         secret   |-> config.accessKeySecret]

\* Request.do, lines 194-218: the headers handed to fetch.  `signed` is the
\* header object as sign() received it; keyId and secret are the
\* credential fields sign() read.
BuildRequest(options) ==
    LET h0 == Assign(DefaultHeaders, options.headers)
        h1 == IF TruthyStr(config.stsToken)
              THEN Set(h0, SecurityTokenKey, config.stsToken[1]) ELSE h0
        h2 == IF options.body # None
              THEN Set(Set(h1, ContentLengthKey, ToDecimal(Len(options.body[1]))),
                       ContentMd5Key, Md5HexUpper(options.body[1]))
              ELSE h1
        h3 == Set(h2, AuthorizationKey, sign(options.method, SignedResource(options), h2))
    IN  [signed   |-> h2,
         sent     |-> h3,
         method   |-> options.method,
         resource |-> SignedResource(options),
         keyId    |-> config.accessKeyID,
         secret   |-> config.accessKeySecret]

\* DEFAULT_REQUEST_OPTIONS.timeout
DefaultTimeout == 3000

\* the delay given to setTimeout: a chain of ||, in which 0 and undefined
\* both fall through
EffectiveTimeout(perCall, perClient) ==
    IF TruthyNum(perCall) THEN perCall[1]
    ELSE IF TruthyNum(perClient) THEN perClient[1]
    ELSE IF TruthyNum(Some(DefaultTimeout)) THEN DefaultTimeout
    ELSE 3000

----------------------------------------------------------------------------
(* Errors, and the interpretation of the response (do, lines 226-266).     *)

\* error.name is kept as <<stem, "Error">>: `${code}Error` is <<code, "Error">>
AbortErrorName == <<"Abort", "Error">>

\* what fetch rejects with once controller.abort() has run
AbortError ==
    [class |-> "DOMException", name |-> AbortErrorName,
     message |-> "This operation was aborted", code |-> "", requestid |-> None]

\* what fetch, arrayBuffer() or json() reject with on a network failure
TransportError ==
    [class |-> "TypeError", name |-> <<"Type", "Error">>,
     message |-> "fetch failed", code |-> "", requestid |-> None]

\* what response.json() rejects with on a body that is not JSON
JsonSyntaxError ==
    [class |-> "SyntaxError", name |-> <<"Syntax", "Error">>,
     message |-> "Unexpected token", code |-> "", requestid |-> None]

\* what body.errorCode throws when the parsed body is null
NullBodyError ==
    [class |-> "TypeError", name |-> <<"Type", "Error">>,
     message |-> "Cannot read properties of null", code |-> "", requestid |-> None]

\* new Error("Request timeout")
TimeoutError ==
    [class |-> "Error", name |-> <<"", "Error">>,
     message |-> "Request timeout", code |-> "", requestid |-> None]

\* new AliCloudSLSLogError(message, code, requestid): this.name = `${code}Error`
AliCloudSLSLogError(message, code, requestid) ==
    [class |-> "AliCloudSLSLogError", name |-> <<code, "Error">>,
     message |-> message, code |-> code, requestid |-> requestid]

Pending == [state |-> "pending", value |-> [kind |-> "none"]]

Fulfilled(v) == [state |-> "fulfilled", value |-> v]

Rejected(e) == [state |-> "rejected", value |-> e]

\* JavaScript truthiness of an optional string field of the body
TruthyField(opt) == opt # None /\ opt[1] # ""

\* the try block after `await response.json()`: a completion that is either
\* the returned body or the error thrown
InterpretJson(body, requestid) ==
    IF body.kind = "invalid" THEN Rejected(JsonSyntaxError)
    ELSE IF body.kind = "null" THEN Rejected(NullBodyError)
    ELSE IF TruthyField(body.errorCode) /\ TruthyField(body.errorMessage)
    THEN Rejected(AliCloudSLSLogError(body.errorMessage[1], body.errorCode[1], requestid))
    ELSE IF body.Error # None
    THEN Rejected(AliCloudSLSLogError(body.Error[1].Message, body.Error[1].Code,
                                      Some(body.Error[1].RequestId)))
    ELSE Fulfilled([kind |-> "json", body |-> body])

\* the throw of the catch block: an error named AbortError becomes the
\* timeout error, whatever raised it
CatchRethrow(error) == IF error.name = AbortErrorName THEN TimeoutError ELSE error

\* clearTimeout(timeoutId): a pending timer is cancelled, any other is left
ClearTimeout(timer) == IF timer = "pending" THEN "cleared" ELSE timer

\* the promise of the public operation: putLogs does not return or await
\* the promise of do(), getLogs returns it, a direct call is that promise
CallerAfter(call, completion) ==
    IF call.op = "putLogs" THEN call.caller ELSE completion

\* A variant of CatchBlock that rethrows without clearing the timer.
CatchBlockNoClear(call, error) ==
    [call EXCEPT !.pc = "done",
                 !.result = Rejected(CatchRethrow(error)),
                 !.caller = CallerAfter(call, Rejected(CatchRethrow(error)))]

\* the catch block of do(), lines 260-266
CatchBlock(call, error) ==
    [call EXCEPT !.pc = "done",
                 !.timer = ClearTimeout(@),
                 !.result = Rejected(CatchRethrow(error)),
                 !.caller = CallerAfter(call, Rejected(CatchRethrow(error)))]

\* do() returns from inside the try block
ReturnValue(call, v) ==
    [call EXCEPT !.pc = "done",
                 !.result = Fulfilled(v),
                 !.caller = CallerAfter(call, Fulfilled(v))]

\* a completion of the try block: a throw goes through the catch block
Complete(call, completion) ==
    IF completion.state = "rejected" THEN CatchBlock(call, completion.value)
    ELSE ReturnValue(call, completion.value)

----------------------------------------------------------------------------
(* The calls.                                                              *)

\* the number of calls made on the client
MaxCalls == 2

Calls == 1..MaxCalls

LogValue == <<108, 111, 103>>    \* "log"

Store == <<115, 49>>    \* the logstore name, "s1"

NoRequest ==
    [signed |-> <<>>, sent |-> <<>>, method |-> <<>>, resource |-> <<>>,
     keyId |-> <<>>, secret |-> <<>>]

NoBody == [kind |-> "none", errorCode |-> None, errorMessage |-> None, Error |-> None]

NoOptions ==
    [method |-> <<>>, path |-> <<>>, queries |-> None, headers |-> <<>>,
     body |-> None, timeout |-> None]

\* a call that has not been made
IdleCall ==
    [pc |-> "idle", op |-> "none", req |-> NoRequest, timer |-> "unset", delay |-> 0,
     options |-> NoOptions, startGen |-> 0, json |-> FALSE, requestid |-> None,
     body |-> NoBody, result |-> Pending, caller |-> Pending,
     logs |-> <<>>, payload |-> <<>>]

\* do(options) up to `await fetch(...)`: the request is built and signed, the
\* timer is started, the exchange is handed to the transport.  These lines
\* run in one turn of the event loop.
StartDo(op, options) ==
    [IdleCall EXCEPT !.pc = "fetch",
                     !.op = op,
                     !.req = BuildRequest(options),
                     !.timer = "pending",
                     !.delay = EffectiveTimeout(options.timeout, config.globalTimeout),
                     !.options = options,
                     !.startGen = Len(gens)]

\* AliCloudSLSLog.putLogs: the payload is encoded, do() is called and its
\* promise dropped; the function returns, so its own promise fulfils
putLogs(c, logs, requestOptions) ==
    /\ calls[c].pc = "idle"
    /\ LET payload == EncodeLogs(logs)
           body    == EncodePayload(payload)
           options == [method  |-> MethodPost,
                       path    |-> LogstoresPath \o Store \o ShardsLb,
                       queries |-> None,
                       headers |-> << <<BodyRawSizeKey, ToDecimal(Len(body))>>,
                                      <<ContentTypeKey, AppProtobuf>> >>,
                       body    |-> Some(body),
                       timeout |-> requestOptions]
       IN  calls' = [calls EXCEPT ![c] =
                        [StartDo("putLogs", options) EXCEPT
                            !.logs = logs,
                            !.payload = payload,
                            !.caller = Fulfilled([kind |-> "undefined"])]]
    /\ UNCHANGED <<config, now, hdrs0, hdrs, canonOut, gens>>

\* AliCloudSLSLog.getLogs: returns the promise of do()
getLogs(c, query, requestOptions) ==
    /\ calls[c].pc = "idle"
    /\ LET fromSec == splitTimestamp(Some(query.from)).seconds
           toSec   == splitTimestamp(Some(query.to)).seconds
           queries == Assign(Assign(<< <<TypeKey, Str(LogValue)>> >>,
                                    << <<FromKey, Number(query.from)>>,
                                       <<ToKey, Number(query.to)>> >>),
                             << <<FromKey, Number(fromSec)>>, <<ToKey, Number(toSec)>> >>)
           options == [method  |-> MethodGet,
                       path    |-> LogstoresPath \o Store,
                       queries |-> Some(queries),
                       headers |-> <<>>,
                       body    |-> None,
                       timeout |-> requestOptions]
       IN  calls' = [calls EXCEPT ![c] = StartDo("getLogs", options)]
    /\ UNCHANGED <<config, now, hdrs0, hdrs, canonOut, gens>>

\* Request.do called by a subclass with its own options
doCall(c, options) ==
    /\ calls[c].pc = "idle"
    /\ calls' = [calls EXCEPT ![c] = StartDo("do", options)]
    /\ UNCHANGED <<config, now, hdrs0, hdrs, canonOut, gens>>

\* `await fetch(...)` resolves: the status line and the headers are in.
\* clearTimeout runs, the content type is read, and the body is awaited.
FetchResolves(c, contentType, requestid) ==
    /\ calls[c].pc = "fetch"
    /\ calls' = [calls EXCEPT ![c] =
                    [@ EXCEPT !.pc = "body",
                              !.timer = ClearTimeout(@),
                              !.json = StartsWith(IF contentType = None THEN <<>>
                                                  ELSE contentType[1], AppJson),
                              !.requestid = requestid]]
    /\ UNCHANGED <<config, now, hdrs0, hdrs, canonOut, gens>>

\* `await fetch(...)` rejects: the transport failed
FetchRejects(c) ==
    /\ calls[c].pc = "fetch"
    /\ calls' = [calls EXCEPT ![c] = CatchBlock(@, TransportError)]
    /\ UNCHANGED <<config, now, hdrs0, hdrs, canonOut, gens>>

\* the timer fires: controller.abort(), which rejects a pending fetch or
\* body read with an AbortError
TimerFires(c) ==
    /\ calls[c].timer = "pending"
    /\ calls' = [calls EXCEPT ![c] =
                    IF @.pc \in {"fetch", "body"}
                    THEN CatchBlock([@ EXCEPT !.timer = "fired"], AbortError)
                    ELSE [@ EXCEPT !.timer = "fired"]]
    /\ UNCHANGED <<config, now, hdrs0, hdrs, canonOut, gens>>

\* `await response.arrayBuffer()` / `await response.json()` settles with the
\* whole body
BodyArrives(c, body) ==
    /\ calls[c].pc = "body"
    /\ calls' = [calls EXCEPT ![c] =
                    IF @.json
                    THEN Complete([@ EXCEPT !.body = body], InterpretJson(body, @.requestid))
                    ELSE ReturnValue([@ EXCEPT !.body = body], [kind |-> "bytes", body |-> body])]
    /\ UNCHANGED <<config, now, hdrs0, hdrs, canonOut, gens>>

\* the body read rejects: the connection broke while the body was read
BodyFails(c) ==
    /\ calls[c].pc = "body"
    /\ calls' = [calls EXCEPT ![c] = CatchBlock(@, TransportError)]
    /\ UNCHANGED <<config, now, hdrs0, hdrs, canonOut, gens>>

\* the number of updateCredential calls
MaxUpdates == 2

\* A variant of updateCredential that leaves the session token in place.
updateCredentialKeepToken(accessKeyID, accessKeySecret, stsToken) ==
    /\ Len(gens) < 1 + MaxUpdates
    /\ config' = [config EXCEPT !.accessKeyID = accessKeyID,
                                !.accessKeySecret = accessKeySecret]
    /\ gens' = Append(gens, [accessKeyID |-> accessKeyID,
                             accessKeySecret |-> accessKeySecret,
                             stsToken |-> stsToken])
    /\ UNCHANGED <<now, calls, hdrs0, hdrs, canonOut>>

\* Request.updateCredential
updateCredential(accessKeyID, accessKeySecret, stsToken) ==
    /\ Len(gens) < 1 + MaxUpdates
    /\ config' = [config EXCEPT !.accessKeyID = accessKeyID,
                                !.accessKeySecret = accessKeySecret,
                                !.stsToken = stsToken]
    /\ gens' = Append(gens, [accessKeyID |-> accessKeyID,
                             accessKeySecret |-> accessKeySecret,
                             stsToken |-> stsToken])
    /\ UNCHANGED <<now, calls, hdrs0, hdrs, canonOut>>

----------------------------------------------------------------------------
(* Canonicalization on its own: a header mapping is re-ordered and         *)
(* re-cased, and canonicalized.                                            *)

\* the number of entries of the header mapping
MaxHeaders == 2

\* header names, all in lower case: three that are signed and one that is not
BaseNames ==
    { <<120, 45, 108, 111, 103, 45, 97>>,        \* "x-log-a"
      <<120, 45, 108, 111, 103, 45, 98>>,        \* "x-log-b"
      <<120, 45, 97, 99, 115, 45, 97>>,          \* "x-acs-a"
      <<100, 97, 116, 101>> }                    \* "date"

\* String.prototype.toUpperCase on the ASCII range
ToUpperCase(s) == [i \in 1..Len(s) |-> IF s[i] >= 97 /\ s[i] <= 122 THEN s[i] - 32 ELSE s[i]]

\* the spellings of a name: as is, first letter in upper case, all upper case
Spellings(name) ==
    {name, ToUpperCase(SubSeq(name, 1, 1)) \o SubSeq(name, 2, Len(name)), ToUpperCase(name)}

HeaderValues == { <<49>>, <<32, 50, 32>> }      \* "1", " 2 "

\* the mappings of n entries whose lowercased names are distinct
RECURSIVE MappingsOf(_)
MappingsOf(n) ==
    IF n = 0 THEN { <<>> }
    ELSE { Append(m, <<k, v>>) :
             m \in MappingsOf(n - 1),
             k \in UNION {Spellings(b) : b \in BaseNames},
             v \in HeaderValues }

WellFormed(m) ==
    \A i, j \in 1..Len(m) : i # j => ToLowerCase(m[i][1]) # ToLowerCase(m[j][1])

Mappings == {m \in UNION {MappingsOf(n) : n \in 1..MaxHeaders} : WellFormed(m)}

CanonInit ==
    /\ config = [accessKeyID |-> <<>>, accessKeySecret |-> <<>>, stsToken |-> None,
                 globalTimeout |-> None]
    /\ gens = <<>>
    /\ now = <<0, 0>>
    /\ calls = [c \in Calls |-> IdleCall]
    /\ hdrs0 \in {m \in Mappings : \A i \in 1..Len(m) : m[i][1] = ToLowerCase(m[i][1])}
    /\ hdrs = hdrs0
    /\ canonOut = None

\* the same mapping with two entries exchanged in insertion order
Permute(i, j) ==
    /\ i < j
    /\ j <= Len(hdrs)
    /\ hdrs' = [hdrs EXCEPT ![i] = hdrs[j], ![j] = hdrs[i]]
    /\ canonOut' = None
    /\ UNCHANGED <<config, now, calls, hdrs0, gens>>

\* the same mapping with one name spelled in another letter case
ChangeCase(i, spelling) ==
    /\ i <= Len(hdrs)
    /\ spelling \in Spellings(ToLowerCase(hdrs[i][1]))
    /\ spelling # hdrs[i][1]
    /\ hdrs' = [hdrs EXCEPT ![i] = <<spelling, hdrs[i][2]>>]
    /\ canonOut' = None
    /\ UNCHANGED <<config, now, calls, hdrs0, gens>>

Canonicalize ==
    /\ canonOut = None
    /\ canonOut' = Some(getCanonicalizedHeaders(hdrs))
    /\ UNCHANGED <<config, now, calls, hdrs0, hdrs, gens>>

CanonNext ==
    \/ \E i, j \in 1..MaxHeaders : Permute(i, j)
    \/ \E i \in 1..MaxHeaders : \E b \in BaseNames : \E sp \in Spellings(b) : ChangeCase(i, sp)
    \/ Canonicalize

CanonSpec == CanonInit /\ [][CanonNext]_vars

----------------------------------------------------------------------------
(* The client: inputs, initial states and next-state relations.            *)

\* credentials of generation g: "id<g>", "sk<g>", "tk<g>"
KeyIdOf(g) == <<105, 100, 48 + g>>

SecretOf(g) == <<115, 107, 48 + g>>

TokenOf(g) == <<116, 107, 48 + g>>

CredentialsOf(cfg) ==
    [accessKeyID |-> cfg.accessKeyID, accessKeySecret |-> cfg.accessKeySecret,
     stsToken |-> cfg.stsToken]

\* the state after `new AliCloudSLSLog(config)`: nothing has been called
ClientInit(tokens, globalTimeouts, clocks) ==
    /\ config \in [accessKeyID : {KeyIdOf(0)}, accessKeySecret : {SecretOf(0)},
                   stsToken : tokens, globalTimeout : globalTimeouts]
    /\ gens = <<CredentialsOf(config)>>
    /\ now \in clocks
    /\ calls = [c \in Calls |-> IdleCall]
    /\ hdrs0 = <<>>
    /\ hdrs = <<>>
    /\ canonOut = None

Clock == <<1792000000, 5>>

\* one log entry {content: {k: "v"}, timestamp, timestampNsPart}
LogEntity(timestamp, timestampNsPart) ==
    [content |-> << <<(<<107>>), (<<118>>)>> >>,
     timestamp |-> timestamp, timestampNsPart |-> timestampNsPart]

PlainLogs == << LogEntity(Some(<<1700000000, 123>>), None) >>

PlainQuery == [from |-> <<1700000000, 0>>, to |-> <<1700000060, 0>>]

PlainTimeouts == {None, Some(1)}

TextPlain == <<116, 101, 120, 116, 47, 112, 108, 97, 105, 110>>    \* "text/plain"

AppJsonUtf8 == <<97, 112, 112, 108, 105, 99, 97, 116, 105, 111, 110, 47, 106, 115, 111, 110, 59, 32, 99, 104, 97, 114, 115, 101, 116, 61, 117, 116, 102, 45, 56>>    \* "application/json; charset=utf-8"

\* a parsed JSON object with the three fields the code reads
JsonObject(errorCode, errorMessage, Error) ==
    [kind |-> "object", errorCode |-> errorCode, errorMessage |-> errorMessage,
     Error |-> Error]

JsonNull == [kind |-> "null", errorCode |-> None, errorMessage |-> None, Error |-> None]

NotJson == [kind |-> "invalid", errorCode |-> None, errorMessage |-> None, Error |-> None]

ErrorObject(code) == [Message |-> "M", Code |-> code, RequestId |-> "R"]

PlainBodies ==
    { JsonObject(None, None, None),
      JsonObject(Some("X"), Some("Y"), None),
      JsonObject(None, None, Some(ErrorObject("C"))),
      NotJson }

\* the events of one exchange, with the responses the endpoint may give
Exchange(c, contentTypes, requestids, bodies) ==
    \/ \E ct \in contentTypes : \E rid \in requestids : FetchResolves(c, ct, rid)
    \/ FetchRejects(c)
    \/ TimerFires(c)
    \/ \E b \in bodies : BodyArrives(c, b)
    \/ BodyFails(c)

Init == ClientInit({None, Some(TokenOf(0))}, {None}, {Clock})

Next ==
    \E c \in Calls :
        \/ \E t \in PlainTimeouts : putLogs(c, PlainLogs, t)
        \/ \E t \in PlainTimeouts : getLogs(c, PlainQuery, t)
        \/ Exchange(c, {Some(AppJson), Some(TextPlain)}, {Some("rid")}, PlainBodies)

Spec == Init /\ [][Next]_vars

\* The event loop runs a timer callback that is due: a pending timer fires
\* unless it is cleared first.  The endpoint owes nothing.
LiveSpec == Spec /\ \A c \in Calls : WF_vars(TimerFires(c))

----------------------------------------------------------------------------
(* Properties of the exchange.                                             *)

Started(c) == calls[c].pc # "idle"

Settled(c) == calls[c].pc = "done"

\* C1: every failure of the exchange reaches the caller of the public
\* operation: the promise of putLogs / getLogs does not fulfil before do()
\* has settled, and it rejects with the error of do() whenever do() rejects.
C1_FailuresPropagate ==
    \A c \in Calls :
        calls[c].op \in {"putLogs", "getLogs"} =>
            /\ calls[c].caller.state = "fulfilled" => calls[c].result.state # "pending"
            /\ calls[c].result.state = "rejected" => calls[c].caller = calls[c].result

\* C2: a call of do() never hangs: once started, it eventually settles,
\* whether or not the endpoint completes the exchange.
C2_NeverHangs == \A c \in Calls : Started(c) ~> Settled(c)

\* C3: in every state where a call of do() has settled, its timer is no
\* longer pending: it was cleared, or it has fired, on every settling path.
C3_TimerCleared == \A c \in Calls : Settled(c) => calls[c].timer \in {"cleared", "fired"}

\* a call has been rejected by the transport while its timer was pending,
\* and the timer is cleared
C3_Witness ==
    \E c \in Calls :
        /\ Settled(c)
        /\ calls[c].result = Rejected(TransportError)
        /\ calls[c].json = FALSE
        /\ calls[c].requestid = None
        /\ calls[c].timer = "cleared"

----------------------------------------------------------------------------
(* Credential rotation while calls are in flight.                          *)

CredInit == ClientInit({None, Some(<<>>), Some(TokenOf(0))}, {None}, {Clock})

CredNext ==
    \/ \E c \in Calls :
          \/ putLogs(c, PlainLogs, None)
          \/ getLogs(c, PlainQuery, None)
          \/ TimerFires(c)
    \/ \E withToken \in BOOLEAN :
          updateCredential(KeyIdOf(Len(gens)), SecretOf(Len(gens)),
                           IF withToken THEN Some(TokenOf(Len(gens))) ELSE None)

CredSpec == CredInit /\ [][CredNext]_vars

\* the credential generation that was current when call c started
StartCredentials(c) == gens[calls[c].startGen]

\* C10: each request is built from one credential generation, the one
\* current when the call started: the key id in the authorization header,
\* the secret of the HMAC and the x-acs-security-token header (present
\* exactly when that generation has a session token) all come from it; and
\* an updateCredential made while the call waits leaves the request as built.
C10_SingleGeneration ==
    /\ [](\A c \in Calls :
            Started(c) =>
               LET r == calls[c].req
                   g == StartCredentials(c)
               IN  /\ r.keyId = g.accessKeyID
                   /\ r.secret = g.accessKeySecret
                   /\ Has(r.sent, SecurityTokenKey) <=> TruthyStr(g.stsToken)
                   /\ TruthyStr(g.stsToken) => Get(r.sent, SecurityTokenKey) = g.stsToken[1]
                   /\ Get(r.sent, AuthorizationKey) =
                          LogScheme \o g.accessKeyID \o Colon
                              \o HmacSHA1Base64(SignString(r.method, r.resource, r.signed),
                                                g.accessKeySecret))
    /\ [][\A c \in Calls : Started(c) => calls'[c].req = calls[c].req]_vars

\* a call built with a session token is still waiting on the network after
\* the credentials were replaced by a generation without one, and a second
\* call has been built from the new generation
C10_Witness ==
    \E c, d \in Calls :
        /\ calls[c].pc = "fetch"
        /\ calls[c].startGen < Len(gens)
        /\ TruthyStr(StartCredentials(c).stsToken)
        /\ ~TruthyStr(config.stsToken)
        /\ calls[d].pc = "fetch"
        /\ calls[d].startGen = Len(gens)
        /\ calls[d].req.keyId # calls[c].req.keyId

----------------------------------------------------------------------------
(* do() called with every combination of caller headers, body, query,      *)
(* session token and timeout options.                                      *)

XLogCustom == <<88, 45, 76, 111, 103, 45, 67, 117, 115, 116, 111, 109>>    \* "X-Log-Custom"

DateUpper == <<68, 97, 116, 101>>    \* "Date"

CallerHeaders ==
    { <<>>,
      << <<XLogCustom, (<<32, 118, 32>>)>> >>,
      << <<ContentTypeKey, AppProtobuf>>, <<BodyRawSizeKey, (<<50>>)>> >>,
      << <<DateUpper, (<<68>>)>>, <<AuthorizationKey, (<<97>>)>> >> }

CallerQueries ==
    { None,
      Some(<< <<ToKey, Number(<<0, 7>>)>>, <<FromKey, Undef>> >>) }

CallerTimeouts == {None, Some(0), Some(1), Some(5000)}

DoOptions ==
    [method : {MethodGet, MethodPost},
     path : {LogstoresPath \o Store},
     queries : CallerQueries,
     headers : CallerHeaders,
     body : {None, Some(<<1, 2>>)},
     timeout : CallerTimeouts]

ReqInit ==
    ClientInit({None, Some(<<>>), Some(TokenOf(0))}, {None, Some(0), Some(7000)}, {Clock})

ReqNext ==
    \/ \E options \in DoOptions : doCall(1, options)
    \/ Exchange(1, {Some(AppJson), Some(TextPlain)}, {Some("rid")}, PlainBodies)

ReqSpec == ReqInit /\ [][ReqNext]_vars

KeySet(o) == Range(Keys(o))

\* C5: every request handed to the transport carries date and
\* authorization; the authorization value is the signature over the headers
\* as they stood once the defaults, the caller headers, the session token
\* and the body-integrity headers were in place; and the headers sent are
\* those signed plus authorization.
C5_SignedOverAllHeaders ==
    \A c \in Calls :
        Started(c) =>
            LET r == calls[c].req
                o == calls[c].options
            IN  /\ Has(r.sent, DateKey)
                /\ Has(r.sent, AuthorizationKey)
                /\ KeySet(r.sent) = KeySet(r.signed) \cup {AuthorizationKey}
                /\ \A k \in KeySet(r.signed) \ {AuthorizationKey} :
                       Get(r.sent, k) = Get(r.signed, k)
                /\ Get(r.sent, AuthorizationKey) =
                       LogScheme \o config.accessKeyID \o Colon
                           \o HmacSHA1Base64(SignString(r.method, r.resource, r.signed),
                                             config.accessKeySecret)
                /\ KeySet(DefaultHeaders) \subseteq KeySet(r.signed)
                /\ KeySet(o.headers) \subseteq KeySet(r.signed)
                /\ TruthyStr(config.stsToken) => Has(r.signed, SecurityTokenKey)
                /\ o.body # None =>
                       /\ Has(r.signed, ContentLengthKey)
                       /\ Has(r.signed, ContentMd5Key)

\* a request with caller headers, a body and a session token has been sent
C5_Witness ==
    \E c \in Calls :
        /\ Started(c)
        /\ Has(calls[c].req.sent, XLogCustom)
        /\ Has(calls[c].req.sent, ContentMd5Key)
        /\ Has(calls[c].req.sent, SecurityTokenKey)
        /\ Has(calls[c].req.sent, AuthorizationKey)

\* C7: the timeout follows per-call > per-client > default: a per-call
\* timeout, when defined, is used whatever the client options say; else a
\* defined per-client timeout; else 3000 ms.
C7_TimeoutPrecedence ==
    \A c \in Calls :
        Started(c) =>
            calls[c].delay =
                IF calls[c].options.timeout # None THEN calls[c].options.timeout[1]
                ELSE IF config.globalTimeout # None THEN config.globalTimeout[1]
                ELSE 3000

----------------------------------------------------------------------------
(* The responses an endpoint may give.                                     *)

ContentTypes == {None, Some(AppJson), Some(AppJsonUtf8), Some(TextPlain)}

RequestIds == {None, Some("rid")}

Bodies ==
    { JsonObject(ec, em, er) :
        ec \in {None, Some(""), Some("X"), Some("Abort")},
        em \in {None, Some(""), Some("Y")},
        er \in {None, Some(ErrorObject("C")), Some(ErrorObject("Abort"))} }
      \cup {JsonNull, NotJson}

RespInit == ClientInit({None}, {None}, {Clock})

RespNext ==
    \/ putLogs(1, PlainLogs, None)
    \/ getLogs(1, PlainQuery, None)
    \/ Exchange(1, ContentTypes, RequestIds, Bodies)

RespSpec == RespInit /\ [][RespNext]_vars

\* the body of call c has been read to its end
BodyRead(c) == Settled(c) /\ calls[c].body.kind # "none"

\* C6: the response is interpreted in a fixed order: a content type that
\* does not start with application/json gives the raw bytes; a JSON body
\* with errorCode and errorMessage raises AliCloudSLSLogError(errorMessage,
\* errorCode, x-log-requestid); otherwise a JSON body with an Error object
\* raises AliCloudSLSLogError(Error.Message, Error.Code, Error.RequestId);
\* any other JSON body is returned unchanged.
C6_ResponseOrder ==
    \A c \in Calls :
        BodyRead(c) =>
            LET b == calls[c].body
                result == calls[c].result
            IN  IF ~calls[c].json
                THEN result.state = "fulfilled"
                     /\ result.value = [kind |-> "bytes", body |-> b]
                ELSE IF b.kind = "invalid" THEN TRUE
                ELSE IF b.errorCode # None /\ b.errorMessage # None
                THEN result.state = "rejected"
                     /\ result.value = AliCloudSLSLogError(b.errorMessage[1], b.errorCode[1],
                                                           calls[c].requestid)
                ELSE IF b.Error # None
                THEN result.state = "rejected"
                     /\ result.value = AliCloudSLSLogError(b.Error[1].Message, b.Error[1].Code,
                                                           Some(b.Error[1].RequestId))
                ELSE result.state = "fulfilled"
                     /\ result.value = [kind |-> "json", body |-> b]

----------------------------------------------------------------------------
(* putLogs over timestamps on both sides of the threshold.                 *)

\* the number of entries of data.logs
MaxLogs == 2

Timestamps ==
    { <<0, 0>>, <<0, 5>>, <<999999999, 999>>,
      <<1000000000, 0>>, <<1000000000, 1>>,
      <<1152921504, 606>>, <<1152921504, 607>>,
      <<1700000000, 0>>, <<1700000000, 2>>, <<1700000000, 6>>, <<1700000000, 123>> }

NsParts == {0, 1, 999999999}

LogEntities ==
    { LogEntity(ts, ns) :
        ts \in {None} \cup {Some(t) : t \in Timestamps},
        ns \in {None} \cup {Some(n) : n \in NsParts} }

RECURSIVE LogsOf(_)
LogsOf(n) ==
    IF n = 0 THEN { <<>> }
    ELSE { Append(l, e) : l \in LogsOf(n - 1), e \in LogEntities }

SplitInit == ClientInit({None}, {None}, {Clock})

SplitNext ==
    \/ \E n \in 1..MaxLogs : \E logs \in LogsOf(n) : putLogs(1, logs, None)
    \/ Exchange(1, {Some(AppJson), Some(TextPlain)}, {Some("rid")}, PlainBodies)

SplitSpec == SplitInit /\ [][SplitNext]_vars

\* C8: the TimeNs of an encoded entry is the entry's timestampNsPart
\* whenever that field is present, whatever its value and the timestamp;
\* only when it is absent is TimeNs the remainder splitTimestamp derives.
C8_ExplicitNsPart ==
    \A c \in Calls : \A i \in 1..Len(calls[c].logs) :
        LET log == calls[c].logs[i]
        IN  calls[c].payload[i].TimeNs =
                IF log.timestampNsPart # None THEN log.timestampNsPart[1]
                ELSE splitTimestamp(log.timestamp).nanoseconds

\* C9: for a supplied timestamp t, splitTimestamp gives {t, 0} below 10^12,
\* and at or above it seconds = floor(t / 1000) and nanoseconds =
\* (t * 10^6) mod 10^9, which is (t mod 1000) * 10^6; the current time
\* stands in only for an absent timestamp.  (Read on the entries that carry
\* no timestampNsPart, whose TimeNs is the derived remainder.)
C9_SplitTimestamp ==
    \A c \in Calls : \A i \in 1..Len(calls[c].logs) :
        LET log == calls[c].logs[i]
            out == calls[c].payload[i]
        IN  (log.timestamp # None /\ log.timestampNsPart = None) =>
                LET t == log.timestamp[1]
                IN  IF t[1] < 1000000000
                    THEN out.Time = t /\ out.TimeNs = 0
                    ELSE out.Time = Num(t[1]) /\ out.TimeNs = t[2] * 1000000

----------------------------------------------------------------------------
(* Properties of the canonicalization.                                     *)

\* the headers of m that are signed, under their lowercased names
RECURSIVE SignedLowercased(_)
SignedLowercased(m) ==
    IF m = <<>> THEN <<>>
    ELSE IF IsCanonicalKey(Head(m)[1])
    THEN << <<ToLowerCase(Head(m)[1]), Trim(Head(m)[2])>> >> \o SignedLowercased(Tail(m))
    ELSE SignedLowercased(Tail(m))

\* "name:trimmed-value" lines in lexicographic order of the lowercased name
CanonicalForm(m) ==
    LET lower == SignedLowercased(m)
        names == Sort(Keys(lower))
    IN  Join([i \in 1..Len(names) |-> names[i] \o Colon \o Get(lower, names[i])], Newline)

\* C4: the canonicalized-headers string is the same for every permutation
\* of the entries and every change of letter case in the names: the signed
\* headers, lowercased, in lexicographic order of the lowercased name.
C4_CaseAndOrderIndependent ==
    canonOut # None =>
        /\ canonOut[1] = getCanonicalizedHeaders(hdrs0)
        /\ canonOut[1] = CanonicalForm(hdrs)

=============================================================================
